---------------------------- MODULE Spec2Model ----------------------------
(***************************************************************************)
(* Date matching and snippet extraction of event_summary_app.              *)
(*                                                                         *)
(* src/unnamed/part_000 holds four variants of the script.  The model      *)
(* covers variant 4 (lines 1079-1247: parse_to_western_date,               *)
(* find_date_like_in_text, filter_df_by_date_in_column, extract_text and   *)
(* the button handler) and the table/paragraph flow of variant 2 (lines    *)
(* 361-705; the flow of variant 1, lines 215-309, is the same code).       *)
(*                                                                         *)
(* A text is a sequence of characters; a character is a one-element token. *)
(* ASCII characters stand for themselves, the others are named below.      *)
(* Offsets are 0-based as in Python: text[i] of the source is text[i + 1]. *)
(***************************************************************************)
EXTENDS Integers, Sequences, FiniteSets, TLC

(***************************************************************************)
(* Characters                                                              *)
(***************************************************************************)
NIAN  == "nian"   \* U+5E74, the year glyph
YUE   == "yue"    \* U+6708, the month glyph
RI    == "ri"     \* U+65E5, the day glyph
HAN   == "han"    \* any other character of U+4E00..U+9FFF
FWSL  == "fw/"    \* U+FF0F, full-width slash
FWHY  == "fw-"    \* U+FF0D, full-width hyphen
FWDOT == "fw."    \* U+FF0E, full-width dot

Digit   == {"0", "1", "2", "3", "4", "5", "6", "7", "8", "9"}
Digit19 == Digit \ {"0"}
SlashHyphen == {"/", "-"}
CJK == {NIAN, YUE, RI, HAN}

DigitChars == <<"0", "1", "2", "3", "4", "5", "6", "7", "8", "9">>

DigitVal(c) == CHOOSE v \in 0..9 : DigitChars[v + 1] = c

Min(a, b) == IF a < b THEN a ELSE b

(***************************************************************************)
(* Python string primitives                                                *)
(***************************************************************************)
\* text[a:b] for 0 <= a: both ends are clipped to the text, never an error
PySlice(text, a, b) ==
    LET lo == Min(a, Len(text))
        hi == Min(b, Len(text))
    IN  IF hi <= lo THEN <<>> ELSE SubSeq(text, lo + 1, hi)

StartsAt(text, sub, pos) ==
    /\ pos + Len(sub) <= Len(text)
    /\ \A k \in 1..Len(sub) : text[pos + k] = sub[k]

\* sub in text
Contains(text, sub) == \E pos \in 0..Len(text) : StartsAt(text, sub, pos)

\* text.find(sub): the lowest offset, or -1
PyFind(text, sub) ==
    IF Contains(text, sub)
    THEN CHOOSE pos \in 0..Len(text) :
            /\ StartsAt(text, sub, pos)
            /\ \A q \in 0..(pos - 1) : ~StartsAt(text, sub, q)
    ELSE -1

\* text.replace(old, new) for a one-character old
ReplaceChar(text, old, new) ==
    [k \in 1..Len(text) |-> IF text[k] = old THEN new ELSE text[k]]

IsSpace(c) == c = " "

\* text.strip() == ""
StripIsEmpty(text) == \A k \in 1..Len(text) : IsSpace(text[k])

RECURSIVE LStrip(_)
LStrip(text) ==
    IF text # <<>> /\ IsSpace(Head(text)) THEN LStrip(Tail(text)) ELSE text

RECURSIVE RStrip(_)
RStrip(text) ==
    IF text # <<>> /\ IsSpace(text[Len(text)])
    THEN RStrip(SubSeq(text, 1, Len(text) - 1))
    ELSE text

\* text.strip()
Strip(text) == RStrip(LStrip(text))

\* int(s) for a string of digits (surrounding blanks are ignored by int)
RECURSIVE ToInt(_)
ToInt(s) ==
    IF s = <<>> THEN 0
    ELSE IF IsSpace(s[Len(s)]) THEN ToInt(SubSeq(s, 1, Len(s) - 1))
    ELSE IF IsSpace(Head(s)) THEN ToInt(Tail(s))
    ELSE 10 * ToInt(SubSeq(s, 1, Len(s) - 1)) + DigitVal(s[Len(s)])

\* str(n) for n >= 0
RECURSIVE IntStr(_)
IntStr(n) ==
    IF n < 10 THEN <<DigitChars[n + 1]>>
    ELSE IntStr(n \div 10) \o <<DigitChars[(n % 10) + 1]>>

\* n formatted to at least w digits with leading zeros ("%02d", "%m", "%Y")
RECURSIVE ZeroPad(_, _)
ZeroPad(n, w) ==
    IF Len(IntStr(n)) >= w THEN IntStr(n) ELSE <<"0">> \o ZeroPad(n, w - 1)

(***************************************************************************)
(* Regular expressions: a pattern is a sequence of items, matched as       *)
(* Python's re does: greedy repetition, alternatives in order, backtrack.  *)
(***************************************************************************)
Atom(S, lo, hi) == [k |-> "atom", set |-> S, lo |-> lo, hi |-> hi, alts |-> <<>>]
Lit(c)          == Atom({c}, 1, 1)
Alt(alts)       == [k |-> "alt", set |-> {}, lo |-> 0, hi |-> 0, alts |-> alts]
Mark            == [k |-> "mark", set |-> {}, lo |-> 0, hi |-> 0, alts |-> <<>>]
EndAnchor       == [k |-> "end", set |-> {}, lo |-> 0, hi |-> 0, alts |-> <<>>]

NoMatch == [ok |-> FALSE, end |-> -1, marks |-> <<>>]

\* how many characters from pos on are in S, counting at most hi
RECURSIVE Run(_, _, _, _)
Run(S, text, pos, hi) ==
    IF hi = 0 \/ pos >= Len(text) \/ text[pos + 1] \notin S THEN 0
    ELSE 1 + Run(S, text, pos + 1, hi - 1)

RECURSIVE ReMatch(_, _, _)
RECURSIVE TryCounts(_, _, _, _, _)
RECURSIVE TryAlts(_, _, _, _, _)

\* the item h repeated n times, then the rest; on failure one repetition less
TryCounts(h, rest, text, pos, n) ==
    IF n < h.lo THEN NoMatch
    ELSE LET r == ReMatch(rest, text, pos + n)
         IN  IF r.ok THEN r ELSE TryCounts(h, rest, text, pos, n - 1)

\* the j-th alternative, then the rest; on failure the next alternative
TryAlts(alts, rest, text, pos, j) ==
    IF j > Len(alts) THEN NoMatch
    ELSE LET r == ReMatch(alts[j] \o rest, text, pos)
         IN  IF r.ok THEN r ELSE TryAlts(alts, rest, text, pos, j + 1)

\* re.match at offset pos: the end offset and the offsets of the marks passed
ReMatch(todo, text, pos) ==
    IF todo = <<>> THEN [ok |-> TRUE, end |-> pos, marks |-> <<>>]
    ELSE LET h    == Head(todo)
             rest == Tail(todo)
         IN  CASE h.k = "mark" ->
                    LET r == ReMatch(rest, text, pos)
                    IN  IF r.ok THEN [r EXCEPT !.marks = <<pos>> \o @] ELSE r
               [] h.k = "end" ->
                    IF pos = Len(text) THEN ReMatch(rest, text, pos) ELSE NoMatch
               [] h.k = "atom" ->
                    TryCounts(h, rest, text, pos, Run(h.set, text, pos, h.hi))
               [] h.k = "alt" ->
                    TryAlts(h.alts, rest, text, pos, 1)

\* re.finditer: the non-overlapping matches, scanning left to right
RECURSIVE FindIterFrom(_, _, _)
FindIterFrom(pat, text, pos) ==
    IF pos >= Len(text) THEN <<>>
    ELSE LET r == ReMatch(pat, text, pos)
         IN  IF r.ok /\ r.end > pos
             THEN <<[start |-> pos, end |-> r.end]>> \o FindIterFrom(pat, text, r.end)
             ELSE FindIterFrom(pat, text, pos + 1)

finditer(pat, text) == FindIterFrom(pat, text, 0)

(***************************************************************************)
(* Calendar dates                                                          *)
(***************************************************************************)
IsLeap(y) == (y % 4 = 0 /\ y % 100 # 0) \/ y % 400 = 0

DaysInMonth(y, m) ==
    IF m = 2 THEN (IF IsLeap(y) THEN 29 ELSE 28)
    ELSE IF m \in {4, 6, 9, 11} THEN 30 ELSE 31

\* the datetime constructor accepts MINYEAR = 1 .. MAXYEAR = 9999
ValidDate(y, m, d) ==
    /\ y >= 1 /\ y <= 9999
    /\ m >= 1 /\ m <= 12
    /\ d >= 1 /\ d <= DaysInMonth(y, m)

MkDate(y, m, d) == [kind |-> "date", year |-> y, month |-> m, day |-> d]
None       == [kind |-> "None", year |-> 0, month |-> 0, day |-> 0]
ValueError == [kind |-> "ValueError", year |-> 0, month |-> 0, day |-> 0]

IsDate(x) == x.kind = "date"

\* a constructor that accepts a day up to 31 in every month
datetime_any_day(y, m, d) ==
    IF y >= 1 /\ y <= 9999 /\ m >= 1 /\ m <= 12 /\ d >= 1 /\ d <= 31
    THEN MkDate(y, m, d) ELSE ValueError

\* datetime(year, month, day): the date, or ValueError raised
datetime(y, m, d) == IF ValidDate(y, m, d) THEN MkDate(y, m, d) ELSE ValueError

(***************************************************************************)
(* datetime.strptime                                                       *)
(***************************************************************************)
Directive == {"%Y", "%m", "%d"}

\* the regular expression _strptime compiles for one directive
DirectiveRegex(t) ==
    CASE t = "%Y" -> <<Atom(Digit, 4, 4)>>
      [] t = "%m" -> <<Alt(<< <<Lit("1"), Atom({"0", "1", "2"}, 1, 1)>>,
                             <<Lit("0"), Atom(Digit19, 1, 1)>>,
                             <<Atom(Digit19, 1, 1)>> >>)>>
      [] t = "%d" -> <<Alt(<< <<Lit("3"), Atom({"0", "1"}, 1, 1)>>,
                             <<Atom({"1", "2"}, 1, 1), Atom(Digit, 1, 1)>>,
                             <<Lit("0"), Atom(Digit19, 1, 1)>>,
                             <<Atom(Digit19, 1, 1)>>,
                             <<Lit(" "), Atom(Digit19, 1, 1)>> >>)>>

RECURSIVE FormatRegex(_)
FormatRegex(fmt) ==
    IF fmt = <<>> THEN <<>>
    ELSE (IF Head(fmt) \in Directive
          THEN <<Mark>> \o DirectiveRegex(Head(fmt)) \o <<Mark>>
          ELSE <<Lit(Head(fmt))>>) \o FormatRegex(Tail(fmt))

\* the integer a directive captured, or dflt when the format has no such directive
Field(fmt, s, marks, t, dflt) ==
    LET ds == SelectSeq(fmt, LAMBDA x : x \in Directive)
    IN  IF \E j \in 1..Len(ds) : ds[j] = t
        THEN LET j == CHOOSE i \in 1..Len(ds) : ds[i] = t
             IN  ToInt(PySlice(s, marks[2 * j - 1], marks[2 * j]))
        ELSE dflt

\* datetime.strptime(s, fmt): the date, or ValueError raised.  The year
\* defaults to 1900 (a day 29 of month 2 without a year is rejected as 1900
\* is no leap year), the whole string must be consumed.
strptime(s, fmt) ==
    LET r == ReMatch(FormatRegex(fmt), s, 0)
    IN  IF ~r.ok \/ r.end # Len(s) THEN ValueError
        ELSE datetime(Field(fmt, s, r.marks, "%Y", 1900),
                      Field(fmt, s, r.marks, "%m", 1),
                      Field(fmt, s, r.marks, "%d", 1))

(***************************************************************************)
(* Variant 4: parse_to_western_date and find_date_like_in_text             *)
(***************************************************************************)
\* the underscore replaced by the full-width slash
normalize_to_fullwidth(text) ==
    ReplaceChar(ReplaceChar(ReplaceChar(text, FWSL, "/"), FWHY, "-"), "_", FWSL)

\* .replace(U+FF0F, "/").replace(U+FF0D, "-").replace("_", "/")
normalize(text) ==
    ReplaceChar(ReplaceChar(ReplaceChar(text, FWSL, "/"), FWHY, "-"), "_", "/")

\* ^(\d{2,3})[/-](\d{1,2})[/-](\d{1,2})$
ROC_RE ==
    <<Mark, Atom(Digit, 2, 3), Mark, Atom(SlashHyphen, 1, 1),
      Mark, Atom(Digit, 1, 2), Mark, Atom(SlashHyphen, 1, 1),
      Mark, Atom(Digit, 1, 2), Mark, EndAnchor>>

FORMATS ==
    << <<"%Y", "-", "%m", "-", "%d">>,
       <<"%Y", "/", "%m", "/", "%d">>,
       <<"%Y", "%m", "%d">>,
       <<"%m", "/", "%d">>,
       <<"%m", "-", "%d">>,
       <<"%m", YUE, "%d", RI>> >>

\* a Republic-of-China year is a year below 200
\* the test written year <= 200
rocYear_le(year) == IF year <= 200 THEN year + 1911 ELSE year

rocYear(year) == IF year < 200 THEN year + 1911 ELSE year

\* try: return datetime(...) / datetime.strptime(...)  except ValueError: ...
\* the call without its try/except: the ValueError leaves the function
Caught_no_except(r, otherwise) == r

Caught(r, otherwise) == IF r = ValueError THEN otherwise ELSE r

RECURSIVE TryFormats(_, _)
TryFormats(s, j) ==
    IF j > Len(FORMATS) THEN None
    ELSE Caught(strptime(s, FORMATS[j]), TryFormats(s, j + 1))

parse_to_western_date(date_str) ==
    LET s == normalize(Strip(date_str))
        m == ReMatch(ROC_RE, s, 0)
    IN  IF m.ok
        THEN Caught(datetime(rocYear(ToInt(PySlice(s, m.marks[1], m.marks[2]))),
                             ToInt(PySlice(s, m.marks[3], m.marks[4])),
                             ToInt(PySlice(s, m.marks[5], m.marks[6]))),
                    None)
        ELSE TryFormats(s, 1)

\* \d{3,4}[/-]\d{1,2}[/-]\d{1,2}   \d{1,2}[/-]\d{1,2}   \d{1,2}<yue>\d{1,2}<ri>
patterns ==
    << <<Atom(Digit, 3, 4), Atom(SlashHyphen, 1, 1), Atom(Digit, 1, 2),
         Atom(SlashHyphen, 1, 1), Atom(Digit, 1, 2)>>,
       <<Atom(Digit, 1, 2), Atom(SlashHyphen, 1, 1), Atom(Digit, 1, 2)>>,
       <<Atom(Digit, 1, 2), Lit(YUE), Atom(Digit, 1, 2), Lit(RI)>> >>

\* the matches of pattern p in an already normalized text, each with the
\* value parse_to_western_date gives for it
PatternMatches(p, text) ==
    LET ms == finditer(patterns[p], text)
    IN  [j \in 1..Len(ms) |->
            [pat |-> p, start |-> ms[j].start, end |-> ms[j].end,
             d |-> parse_to_western_date(PySlice(text, ms[j].start, ms[j].end))]]

\* the matches of every pattern, by pattern
matches_by_pattern(text) == [p \in 1..Len(patterns) |-> PatternMatches(p, text)]

\* the matches of the patterns visited in the given order
Visit(order, by_pat) == by_pat[order[1]] \o by_pat[order[2]] \o by_pat[order[3]]

\* the patterns visited with the year-omitted numeric one first
AllMatches_short_first(text) == Visit(<<2, 1, 3>>, matches_by_pattern(text))

\* for pat in patterns: for m in re.finditer(pat, text): the matches in the
\* order the two loops visit them
AllMatches(text) == Visit(<<1, 2, 3>>, matches_by_pattern(text))

\* find_date_like_in_text(text).  kept are the matches whose parse gave a date,
\* in visiting order, and found_dates, the list returned, their dates; raised
\* says that a parse let an exception through, which then leaves the function
collect_dates(ms) ==
    LET kept == SelectSeq(ms, LAMBDA m : m.d # None)
    IN  [raised      |-> \E j \in 1..Len(ms) : ms[j].d = ValueError,
         kept        |-> kept,
         found_dates |-> [j \in 1..Len(kept) |-> kept[j].d]]

find_date_like_in_text(text) == collect_dates(AllMatches(normalize(text)))

(***************************************************************************)
(* Variant 4: filter_df_by_date_in_column and extract_text                 *)
(***************************************************************************)
\* strftime("%Y-%m-%d"), strftime("%Y/%m/%d"), strftime("%Y%m%d"), strftime("%m/%d")
fmt_Y_m_d(t, sep) == ZeroPad(t.year, 4) \o sep \o ZeroPad(t.month, 2) \o sep \o ZeroPad(t.day, 2)
fmt_m_d(t, sep)   == ZeroPad(t.month, 2) \o sep \o ZeroPad(t.day, 2)
\* f"{month}/{day}", f"{month}-{day}", f"{month}<yue>{day}<ri>"
fmt_M_D(t, sep)   == IntStr(t.month) \o sep \o IntStr(t.day)
fmt_M_yue_D_ri(t) == IntStr(t.month) \o <<YUE>> \o IntStr(t.day) \o <<RI>>

\* td_strs without the un-padded month/day
td_strs_v4_no_M_D(target_date) ==
    <<fmt_Y_m_d(target_date, <<"-">>),
      fmt_Y_m_d(target_date, <<"/">>),
      fmt_m_d(target_date, <<"/">>),
      fmt_M_D(target_date, <<"-">>)>>

td_strs_v4(target_date) ==
    <<fmt_Y_m_d(target_date, <<"-">>),
      fmt_Y_m_d(target_date, <<"/">>),
      fmt_M_D(target_date, <<"/">>),
      fmt_m_d(target_date, <<"/">>),
      fmt_M_D(target_date, <<"-">>)>>

td_chinese_v4(target_date) == fmt_M_yue_D_ri(target_date)

AnyIn(strs, text) == \E j \in 1..Len(strs) : Contains(text, strs[j])

\* d.year == target_date.year and d.month == ... and d.day == ...
SameYMD(d, t) == d.year = t.year /\ d.month = t.month /\ d.day = t.day

\* d.month == target_date.month and d.day == target_date.day
SameMD(d, t) == d.month = t.month /\ d.day = t.day

\* the recognizer called for every row, the substring test notwithstanding
row_decide_v4_always_called(cand, res, target_date) ==
    [cand   |-> cand,
     called |-> TRUE,
     raised |-> res.raised,
     parsed |-> res.found_dates,
     found  |-> cand \/ \E j \in 1..Len(res.found_dates) :
                            SameYMD(res.found_dates[j], target_date)]

\* a row without any recognized date is kept
row_decide_v4_keep_undated(cand, res, target_date) ==
    [cand   |-> cand,
     called |-> ~cand,
     raised |-> ~cand /\ res.raised,
     parsed |-> IF cand THEN <<>> ELSE res.found_dates,
     found  |-> cand \/ \A j \in 1..Len(res.found_dates) :
                            SameYMD(res.found_dates[j], target_date)]

\* one pass of the loop body for a cell: cand is the exact-substring test; only
\* when it fails is find_date_like_in_text called, and found is then whether a
\* date of parsed has the target's year, month and day
row_decide_v4(cand, res, target_date) ==
    [cand   |-> cand,
     called |-> ~cand,
     raised |-> ~cand /\ res.raised,
     parsed |-> IF cand THEN <<>> ELSE res.found_dates,
     found  |-> cand \/ \E j \in 1..Len(res.found_dates) :
                            SameYMD(res.found_dates[j], target_date)]

\* any(s in normalized_text for s in td_strs) or td_chinese in normalized_text
candidate_hit_v4(normalized_text, target_date) ==
    \/ AnyIn(td_strs_v4(target_date), normalized_text)
    \/ Contains(normalized_text, td_chinese_v4(target_date))

row_eval_v4(text, target_date) ==
    row_decide_v4(candidate_hit_v4(normalize(text), target_date),
                  find_date_like_in_text(normalize(text)), target_date)

\* the value of found after the loop body for one cell
row_found_v4(text, target_date) == row_eval_v4(text, target_date).found

\* matches.insert(0, idx) in place of matches.append(idx)
matches_prepend(ms, idx, found) == IF found THEN <<idx>> \o ms ELSE ms

\* if found: matches.append(idx)
matches_append(ms, idx, found) == IF found THEN Append(ms, idx) ELSE ms

\* the first match, in the order of the two loops, that parses to a date with
\* the target's month and day; found is FALSE when the loops end without one
first_hit(ms, target_date) ==
    LET hits == SelectSeq(ms, LAMBDA m : m.d # None /\ SameMD(m.d, target_date))
    IN  IF hits = <<>>
        THEN [found |-> FALSE, start |-> -1, len |-> 0, pat |-> 0, d |-> None]
        ELSE [found |-> TRUE, start |-> hits[1].start,
              len |-> hits[1].end - hits[1].start, pat |-> hits[1].pat, d |-> hits[1].d]

extract_locate(text, target_date) == first_hit(AllMatches(normalize(text)), target_date)

\* return normalized[start:start + num_chars], or return text[:num_chars]
extract_return(loc, text, num_chars) ==
    IF loc.found
    THEN PySlice(normalize(text), loc.start, loc.start + num_chars)
    ELSE PySlice(text, 0, num_chars)

extract_text(text, target_date, num_chars) ==
    extract_return(extract_locate(text, target_date), text, num_chars)

(***************************************************************************)
(* Variant 2: filter_df_by_date_in_column and the snippet of the main flow *)
(***************************************************************************)
\* .replace(U+FF0F, "/").replace(U+FF0D, "-").replace("_", "/").replace(U+FF0E, ".")
normalize_v2(text) ==
    ReplaceChar(ReplaceChar(ReplaceChar(ReplaceChar(text, FWSL, "/"), FWHY, "-"),
                            "_", "/"), FWDOT, ".")

\* str(n) for any integer n
SignedStr(n) == IF n < 0 THEN <<"-">> \o IntStr(0 - n) ELSE IntStr(n)

td_strs_v2(target_date) ==
    <<fmt_Y_m_d(target_date, <<"-">>),
      fmt_Y_m_d(target_date, <<"/">>),
      fmt_Y_m_d(target_date, <<>>),
      fmt_m_d(target_date, <<"/">>),
      fmt_M_D(target_date, <<"/">>)>>

\* f"{year}<nian>{month}<yue>{day}<ri>"
td_chinese(target_date) ==
    IntStr(target_date.year) \o <<NIAN>> \o fmt_M_yue_D_ri(target_date)
td_chinese_short(target_date) == fmt_M_yue_D_ri(target_date)
\* f"{year - 1911}/{month}/{day}"
td_roc(target_date) ==
    SignedStr(target_date.year - 1911) \o <<"/">> \o fmt_M_D(target_date, <<"/">>)
td_roc_no_year(target_date) == fmt_M_D(target_date, <<"/">>)

\* the exact-substring test of the loop body
candidate_hit_v2(text, target_date) ==
    LET normalized_text == normalize_v2(text)
    IN  \/ AnyIn(td_strs_v2(target_date), normalized_text)
        \/ Contains(normalized_text, td_chinese(target_date))
        \/ Contains(normalized_text, td_chinese_short(target_date))
        \/ Contains(normalized_text, td_roc(target_date))
        \/ Contains(normalized_text, td_roc_no_year(target_date))

\* date_regex: \d{4}[/-]\d{1,2}[/-]\d{1,2} | \d{1,2}[/-]\d{1,2}[/-]\d{2,4}
\*             | \d{1,2}[CJK]{1}\d{1,2}[CJK]{0,1}\d{0,2}
date_regex ==
    <<Alt(<< <<Atom(Digit, 4, 4), Atom(SlashHyphen, 1, 1), Atom(Digit, 1, 2),
               Atom(SlashHyphen, 1, 1), Atom(Digit, 1, 2)>>,
             <<Atom(Digit, 1, 2), Atom(SlashHyphen, 1, 1), Atom(Digit, 1, 2),
               Atom(SlashHyphen, 1, 1), Atom(Digit, 2, 4)>>,
             <<Atom(Digit, 1, 2), Atom(CJK, 1, 1), Atom(Digit, 1, 2),
               Atom(CJK, 0, 1), Atom(Digit, 0, 2)>> >>)>>

\* \d{4}[/-]\d{1,2}[/-]\d{1,2} over a whole string, with its three numbers marked
ISO_SHAPE ==
    <<Mark, Atom(Digit, 4, 4), Mark, Atom(SlashHyphen, 1, 1),
      Mark, Atom(Digit, 1, 2), Mark, Atom(SlashHyphen, 1, 1),
      Mark, Atom(Digit, 1, 2), Mark, EndAnchor>>

\* dateparser.parse(s, dayfirst=False, fuzzy=True) of the dateutil library, which
\* is no part of the repository: a year-month-day string of a valid date parses
\* to that date; for every other string the outcome is left open ("open")
dateparser_parse(s) ==
    LET m == ReMatch(ISO_SHAPE, s, 0)
        y == ToInt(PySlice(s, m.marks[1], m.marks[2]))
        mo == ToInt(PySlice(s, m.marks[3], m.marks[4]))
        dd == ToInt(PySlice(s, m.marks[5], m.marks[6]))
    IN  IF m.ok /\ ValidDate(y, mo, dd) THEN MkDate(y, mo, dd)
        ELSE [kind |-> "open", year |-> 0, month |-> 0, day |-> 0]

\* date_regex.findall(text), each match with what dateparser.parse gives for it
regex_dates_v2(text) ==
    LET ms == finditer(date_regex, text)
    IN  [j \in 1..Len(ms) |-> dateparser_parse(PySlice(text, ms[j].start, ms[j].end))]

\* any(d == target_date for d in find_date_like_in_text(text)); oracle decides
\* the matches whose parse is left open
find_hit_v2(text, target_date, oracle) ==
    LET ds == regex_dates_v2(text)
    IN  \E j \in 1..Len(ds) :
            \/ IsDate(ds[j]) /\ SameYMD(ds[j], target_date)
            \/ ds[j].kind = "open" /\ oracle

\* whether some match of date_regex in the text has an open parse
open_parse_v2(text) ==
    LET ds == regex_dates_v2(text)
    IN  \E j \in 1..Len(ds) : ds[j].kind = "open"

\* the value of found after the loop body for one cell
row_found_v2(text, target_date, oracle) ==
    IF candidate_hit_v2(text, target_date) THEN TRUE
    ELSE find_hit_v2(normalize_v2(text), target_date, oracle)

\* td_candidates of the main flow
td_candidates(target_date) ==
    <<fmt_Y_m_d(target_date, <<"-">>),
      fmt_Y_m_d(target_date, <<"/">>),
      td_chinese(target_date)>>

\* for td in td_candidates: if td in cell_text: start_idx = find; chosen_td = td; break
RECURSIVE first_candidate(_, _, _)
first_candidate(cands, cell_text, j) ==
    IF j > Len(cands) THEN [found |-> FALSE, start |-> -1, len |-> 0]
    ELSE IF Contains(cell_text, cands[j])
         THEN [found |-> TRUE, start |-> PyFind(cell_text, cands[j]), len |-> Len(cands[j])]
         ELSE first_candidate(cands, cell_text, j + 1)

snippet_locate(cell_text, target_date) ==
    first_candidate(td_candidates(target_date), cell_text, 1)

\* the snippet cut without its end: cell_text[start_idx:]
snippet_of_no_end(cell_text, target_date, num_chars) ==
    LET loc == snippet_locate(cell_text, target_date)
    IN  IF loc.start # -1 THEN PySlice(cell_text, loc.start, Len(cell_text)) ELSE <<>>

\* cell_text[start_idx:min(len(cell_text), start_idx + len(chosen_td) + num_chars)], or ""
snippet_of(cell_text, target_date, num_chars) ==
    LET loc == snippet_locate(cell_text, target_date)
    IN  IF loc.start # -1
        THEN PySlice(cell_text, loc.start,
                     Min(Len(cell_text), loc.start + loc.len + num_chars))
        ELSE <<>>

(***************************************************************************)
(* export_to_word (variants 1 and 3): the paragraph written for one row    *)
(***************************************************************************)
\* (\d{4})[-/](\d{1,2})[-/](\d{1,2})
EXPORT_RE ==
    <<Mark, Atom(Digit, 4, 4), Mark, Atom(SlashHyphen, 1, 1),
      Mark, Atom(Digit, 1, 2), Mark, Atom(SlashHyphen, 1, 1),
      Mark, Atom(Digit, 1, 2), Mark>>

\* parts = re.findall(EXPORT_RE, target_date_str); parts[0] is the first match
export_parts(s, ms) == IF ms = <<>> THEN NoMatch ELSE ReMatch(EXPORT_RE, s, ms[1].start)

\* the long form written with zero-padded month and day
chinese_padded(s, m) ==
    IntStr(ToInt(PySlice(s, m.marks[1], m.marks[2]))) \o <<NIAN>>
    \o PySlice(s, m.marks[3], m.marks[4]) \o <<YUE>>
    \o PySlice(s, m.marks[5], m.marks[6]) \o <<RI>>

\* f"{int(y)}<nian>{int(m)}<yue>{int(d)}<ri>"
chinese(s, m) ==
    IntStr(ToInt(PySlice(s, m.marks[1], m.marks[2]))) \o <<NIAN>>
    \o IntStr(ToInt(PySlice(s, m.marks[3], m.marks[4]))) \o <<YUE>>
    \o IntStr(ToInt(PySlice(s, m.marks[5], m.marks[6]))) \o <<RI>>

\* start_idx and target_for_slice: text.find(target_date_str), and when that
\* is -1 and the target string holds a year-month-day, text.find(chinese)
export_fallback(text, s, m) ==
    IF m.ok
    THEN [start |-> PyFind(text, chinese(s, m)), slice |-> chinese(s, m)]
    ELSE [start |-> -1, slice |-> s]

export_locate(text, s, direct) ==
    IF direct # -1 THEN [start |-> direct, slice |-> s]
    ELSE export_fallback(text, s, export_parts(s, finditer(EXPORT_RE, s)))

\* snippet = text[slice_start:slice_end] or ""; the run written after "idx. "
\* is the highlighted snippet, or the placeholder when the snippet is empty
export_paragraph(text, loc, num) ==
    LET snippet == IF loc.start # -1
                   THEN PySlice(text, loc.start,
                                Min(Len(text), loc.start + Len(loc.slice) + num))
                   ELSE <<>>
    IN  [start |-> loc.start, slice |-> loc.slice, snippet |-> snippet,
         run |-> IF snippet # <<>> THEN "highlight" ELSE "placeholder"]

export_row(text, s, num) ==
    export_paragraph(text, export_locate(text, s, PyFind(text, s)), num)

(***************************************************************************)
(* Inputs                                                                  *)
(***************************************************************************)
MaxRows  == 2   \* data rows of the table column that is searched
MaxParas == 1   \* non-empty paragraphs of the document

SeqsUpTo(S, n) == UNION {[1..k -> S] : k \in 0..n}

\* cell texts; a cell is stored stripped (c.text.strip())
\* "<han><han><ri><han>: 2025/10/23 <han><han><han>"
SCEN_A == <<HAN, HAN, RI, HAN, ":", " ", "2", "0", "2", "5", "/", "1", "0", "/", "2", "3",
            " ", HAN, HAN, HAN>>
\* "<han><han> 114/10/23"
SCEN_B == <<HAN, HAN, " ", "1", "1", "4", "/", "1", "0", "/", "2", "3">>
\* "<han><han> 10<yue>23<ri> <han><han>"
SCEN_C == <<HAN, HAN, " ", "1", "0", YUE, "2", "3", RI, " ", HAN, HAN>>
\* no date at all
SCEN_D == <<HAN, RI, HAN>>
OTHER_YEAR == <<"2", "0", "2", "4", "/", "1", "0", "/", "2", "3">>
COMPACT == <<"2", "0", "2", "5", "1", "0", "2", "3">>
TRIPLE == <<"1", "/", "1", "0", "/", "2", "3">>
\* "2025/2/29 2025/10/24": no calendar date, then one
BAD_THEN_OTHER == <<"2", "0", "2", "5", "/", "2", "/", "2", "9", " ",
                    "2", "0", "2", "5", "/", "1", "0", "/", "2", "4">>
FULLWIDTH == <<"2", "0", "2", "5", FWSL, "1", "0", FWSL, "2", "3">>
ISO_DASH == <<"2", "0", "2", "5", "-", "1", "0", "-", "2", "3", " ", HAN, HAN, HAN>>
CN_LONG == <<"2", "0", "2", "5", NIAN, "1", "0", YUE, "2", "3", RI, " ", HAN, HAN>>
DMY == <<"2", "3", "/", "1", "0", "/", "2", "0", "2", "5">>
EMPTY == <<>>

CellTextsV4 == {SCEN_A, SCEN_B, SCEN_C, SCEN_D, OTHER_YEAR, COMPACT, TRIPLE,
                BAD_THEN_OTHER, FULLWIDTH, ISO_DASH, EMPTY}
CellTextsV2 == {SCEN_A, SCEN_C, SCEN_D, CN_LONG, FULLWIDTH, DMY, EMPTY}
\* paragraphs are stripped and the empty ones dropped
ParaTexts   == {SCEN_A, SCEN_D, CN_LONG}

\* what the user types into the date field of variant 4
DateInputs == { <<"2", "0", "2", "5", "/", "1", "0", "/", "2", "3">>,
                <<"1", "0", "/", "2", "3">>,
                <<"2", "0", "2", "5", "-", "0", "2", "-", "3", "0">>,
                <<"1", "1", "4", "/", "2", "/", "3", "0">> }

DownloadFormats == {"CSV", "TXT", "Word"}

(***************************************************************************)
(* State                                                                   *)
(***************************************************************************)
VARIABLES
    variant,       \* "v2" or "v4": which script runs; "fn" in the function specs
    pc,            \* where the script run is
    date_str,      \* v4: the text of the date field
    target_date,   \* the target date, None before it is parsed
    num_chars,
    has_tables,    \* whether the document holds a table (dfs non-empty)
    prefer_table,  \* v2: the checkbox
    df,            \* the cells of the searched column, row by row
    paragraphs,    \* v2: the non-empty paragraphs
    i,             \* rows / paragraphs handled so far by the running loop
    matches,       \* indices kept by filter_df_by_date_in_column
    log,           \* per row handled by the filter: what the loop body did
    result_rows,   \* rows with their snippet
    final,         \* the rows handed to the exporter
    download,      \* the format exported, "" before
    rtext,         \* function specs: the argument
    rout           \* function specs: the result

vars == <<variant, pc, date_str, target_date, num_chars, has_tables, prefer_table,
          df, paragraphs, i, matches, log, result_rows, final, download, rtext, rout>>

Row(src, idx, cell, loc, snippet) ==
    [src |-> src, idx |-> idx, cell |-> cell, found |-> loc.found,
     start |-> loc.start, len |-> loc.len, text |-> snippet]

(***************************************************************************)
(* Variant 4: the script run                                               *)
(***************************************************************************)
InitV4 ==
    /\ variant = "v4"
    /\ pc = "load"
    /\ date_str \in DateInputs
    /\ target_date = None
    /\ num_chars \in {5, 20}      \* st.number_input(min_value=5, max_value=200)
    /\ has_tables \in BOOLEAN
    /\ prefer_table = TRUE
    /\ df \in (IF has_tables THEN SeqsUpTo(CellTextsV4, MaxRows) ELSE {<<>>})
    /\ paragraphs = <<>>
    /\ i = 0
    /\ matches = <<>>
    /\ log = <<>>
    /\ result_rows = <<>>
    /\ final = <<>>
    /\ download = ""
    /\ rtext = <<>>
    /\ rout = <<>>

\* if not dfs: st.error(...); st.stop()
LoadTablesV4 ==
    /\ variant = "v4" /\ pc = "load"
    /\ pc' = IF has_tables THEN "button" ELSE "error_no_tables"
    /\ UNCHANGED <<variant, date_str, target_date, num_chars, has_tables, prefer_table,
                   df, paragraphs, i, matches, log, result_rows, final, download,
                   rtext, rout>>

\* the button: target_date = parse_to_western_date(date_str); stop when None;
\* an exception that leaves the call ends the script run
ClickV4 ==
    /\ variant = "v4" /\ pc = "button"
    /\ target_date' = parse_to_western_date(date_str)
    /\ pc' = IF target_date' = ValueError THEN "crashed"
             ELSE IF target_date' = None THEN "error_bad_date" ELSE "filter"
    /\ UNCHANGED <<variant, date_str, num_chars, has_tables, prefer_table,
                   df, paragraphs, i, matches, log, result_rows, final, download,
                   rtext, rout>>

\* one pass of the loop of filter_df_by_date_in_column; an exception that
\* leaves the loop body ends the script run
FilterRowV4 ==
    /\ variant = "v4" /\ pc = "filter" /\ i < Len(df)
    /\ \E ev \in {row_eval_v4(df[i + 1], target_date)} :
           IF ev.raised
           THEN /\ pc' = "crashed"
                /\ UNCHANGED <<i, matches, log>>
           ELSE /\ pc' = pc
                /\ i' = i + 1
                /\ matches' = matches_append(matches, i + 1, ev.found)
                /\ log' = Append(log, [idx |-> i + 1, found |-> ev.found,
                                       called |-> ev.called, parsed |-> ev.parsed])
    /\ UNCHANGED <<variant, date_str, target_date, num_chars, has_tables, prefer_table,
                   df, paragraphs, result_rows, final, download, rtext, rout>>

\* return df.loc[matches]; if result_df.empty: st.warning(...)
FilterDoneV4 ==
    /\ variant = "v4" /\ pc = "filter" /\ i = Len(df)
    /\ pc' = IF matches = <<>> THEN "warning_no_match" ELSE "extract"
    /\ UNCHANGED <<variant, date_str, target_date, num_chars, has_tables, prefer_table,
                   df, paragraphs, i, matches, log, result_rows, final, download,
                   rtext, rout>>

\* the row of result_df for a kept row, with what extract_text returns for it
extracted_row(idx, cell, loc, n) ==
    Row("table", idx, cell, loc, extract_return(loc, cell, n))

\* result_df[summary] = result_df.apply(extract_text, axis=1), then the three
\* downloads (Word, Excel, TXT) are built from result_df
ExtractV4 ==
    /\ variant = "v4" /\ pc = "extract"
    /\ result_rows' =
         [j \in 1..Len(matches) |->
            extracted_row(matches[j], df[matches[j]],
                          extract_locate(df[matches[j]], target_date), num_chars)]
    /\ final' = result_rows'
    /\ download' = "Word+Excel+TXT"
    /\ pc' = "exported"
    /\ UNCHANGED <<variant, date_str, target_date, num_chars, has_tables, prefer_table,
                   df, paragraphs, i, matches, log, rtext, rout>>

NextV4 == LoadTablesV4 \/ ClickV4 \/ FilterRowV4 \/ FilterDoneV4 \/ ExtractV4

(***************************************************************************)
(* Variant 2: the script run (one table, one chosen column)                *)
(***************************************************************************)
\* the rows passed on without the test on the snippet
keep_all(rows) == rows

\* filtered[filtered["text"].str.strip() != ""]
keep_non_empty(rows) == SelectSeq(rows, LAMBDA r : ~StripIsEmpty(r.text))

\* the outcomes dateparser.parse may have on the matches of date_regex in text
Oracles(text) == IF open_parse_v2(text) THEN BOOLEAN ELSE {FALSE}

InitV2 ==
    /\ variant = "v2"
    /\ pc = "tables"
    /\ date_str = <<>>
    \* prev_business_day() or the parsed user date
    /\ target_date \in {MkDate(2025, 10, 23)}
    /\ num_chars \in {1, 5}       \* st.number_input(min_value=1, max_value=1000)
    /\ has_tables \in BOOLEAN
    /\ prefer_table \in BOOLEAN
    /\ df \in (IF has_tables /\ prefer_table
               THEN SeqsUpTo(CellTextsV2, MaxRows) ELSE {<<>>})
    /\ paragraphs \in SeqsUpTo(ParaTexts, MaxParas)
    /\ i = 0
    /\ matches = <<>>
    /\ log = <<>>
    /\ result_rows = <<>>
    /\ final = <<>>
    /\ download = ""
    /\ rtext = <<>>
    /\ rout = <<>>

\* if dfs and prefer_table: ... else the table search is skipped
SkipTablesV2 ==
    /\ variant = "v2" /\ pc = "tables" /\ ~(has_tables /\ prefer_table)
    /\ pc' = "paragraphs"
    /\ UNCHANGED <<variant, date_str, target_date, num_chars, has_tables, prefer_table,
                   df, paragraphs, i, matches, log, result_rows, final, download,
                   rtext, rout>>

\* one pass of the loop of filter_df_by_date_in_column
TableRowV2 ==
    /\ variant = "v2" /\ pc = "tables" /\ has_tables /\ prefer_table /\ i < Len(df)
    /\ \E oracle \in Oracles(normalize_v2(df[i + 1])) :
         LET found == row_found_v2(df[i + 1], target_date, oracle)
         IN  /\ matches' = matches_append(matches, i + 1, found)
             /\ log' = Append(log, [idx |-> i + 1, found |-> found,
                                    called |-> ~candidate_hit_v2(df[i + 1], target_date),
                                    parsed |-> <<>>])
    /\ i' = i + 1
    /\ UNCHANGED <<variant, pc, date_str, target_date, num_chars, has_tables,
                   prefer_table, df, paragraphs, result_rows, final, download,
                   rtext, rout>>

\* the paragraph search entered whatever the table search gave
after_tables_always_paragraphs(rows) == "paragraphs"

\* if not result_rows: the paragraph search; else on to the result
after_tables(rows) == IF rows = <<>> THEN "paragraphs" ELSE "final"

\* if not filtered.empty: the snippet of every kept row, the rows with an empty
\* snippet dropped, result_rows.append(filtered) when a row is left
TableSnippetsV2 ==
    /\ variant = "v2" /\ pc = "tables" /\ has_tables /\ prefer_table /\ i = Len(df)
    /\ result_rows' =
         keep_non_empty(
           [j \in 1..Len(matches) |->
              Row("table", matches[j], df[matches[j]],
                  snippet_locate(df[matches[j]], target_date),
                  snippet_of(df[matches[j]], target_date, num_chars))])
    /\ pc' = after_tables(result_rows')
    /\ i' = 0
    /\ UNCHANGED <<variant, date_str, target_date, num_chars, has_tables, prefer_table,
                   df, paragraphs, matches, log, final, download, rtext, rout>>

\* if not result_rows: one pass of the loop over the paragraphs
ParaRowV2 ==
    /\ variant = "v2" /\ pc = "paragraphs" /\ i < Len(paragraphs)
    /\ \E oracle \in Oracles(paragraphs[i + 1]) :
         LET txt == paragraphs[i + 1]
             loc == snippet_locate(txt, target_date)
         IN  result_rows' =
                IF find_hit_v2(txt, target_date, oracle) /\ loc.start # -1
                THEN Append(result_rows,
                            Row("paragraphs", i, txt, loc,
                                snippet_of(txt, target_date, num_chars)))
                ELSE result_rows
    /\ i' = i + 1
    /\ UNCHANGED <<variant, pc, date_str, target_date, num_chars, has_tables,
                   prefer_table, df, paragraphs, matches, log, final, download,
                   rtext, rout>>

ParaDoneV2 ==
    /\ variant = "v2" /\ pc = "paragraphs" /\ i = Len(paragraphs)
    /\ pc' = "final"
    /\ UNCHANGED <<variant, date_str, target_date, num_chars, has_tables, prefer_table,
                   df, paragraphs, i, matches, log, result_rows, final, download,
                   rtext, rout>>

\* if result_rows: final = concat, the empty snippets dropped, then the export in
\* the chosen format; else the warning
FinalV2 ==
    /\ variant = "v2" /\ pc = "final"
    /\ IF result_rows # <<>>
       THEN /\ final' = keep_non_empty(result_rows)
            /\ download' \in DownloadFormats
            /\ pc' = "exported"
       ELSE /\ pc' = "warning_no_match"
            /\ UNCHANGED <<final, download>>
    /\ UNCHANGED <<variant, date_str, target_date, num_chars, has_tables, prefer_table,
                   df, paragraphs, i, matches, log, result_rows, rtext, rout>>

NextV2 ==
    SkipTablesV2 \/ TableRowV2 \/ TableSnippetsV2 \/ ParaRowV2 \/ ParaDoneV2 \/ FinalV2

Init == InitV4 \/ InitV2
Next == NextV4 \/ NextV2
Spec == Init /\ [][Next]_vars

(***************************************************************************)
(* find_date_like_in_text of variant 4 as a function: the argument is      *)
(* either a candidate rendering of a date or up to MaxPieces date-like     *)
(* pieces joined by blanks.                                                *)
(***************************************************************************)
MaxPieces == 2

\* the renderings of a target date that the matchers search for
\* (td_strs, td_chinese, td_chinese_short, td_roc of variant 2)
Renderings(t) ==
    <<fmt_Y_m_d(t, <<"-">>), fmt_Y_m_d(t, <<"/">>), fmt_Y_m_d(t, <<>>),
      fmt_m_d(t, <<"/">>), fmt_M_D(t, <<"/">>),
      td_chinese(t), td_chinese_short(t), td_roc(t)>>

YearBearingForms == {1, 2, 3, 6, 8}

RECURSIVE Join(_)
Join(ps) ==
    IF Len(ps) = 0 THEN <<>>
    ELSE IF Len(ps) = 1 THEN ps[1]
    ELSE ps[1] \o <<" ">> \o Join(Tail(ps))

RecogInputs ==
    {[text |-> Renderings(d)[f], d |-> d, form |-> f, pieces |-> <<>>] :
        d \in {MkDate(2025, 10, 23), MkDate(2025, 1, 5), MkDate(2024, 2, 29),
              MkDate(2012, 3, 12), MkDate(1999, 12, 31)},
        f \in 1..8}
    \cup
    {[text |-> Join(ps), d |-> None, form |-> 0, pieces |-> ps] :
        ps \in SeqsUpTo(
            { <<"1", "0", "/", "2", "3">>,
              <<"2", "0", "2", "5", "/", "1", "0", "/", "2", "4">>,
              <<"2", "0", "2", "5", "/", "2", "/", "2", "9">>,
              <<"2", "0", "2", "4", "-", "2", "-", "2", "9">>,
              <<"2", "0", "2", "5", "/", "1", "3", "/", "1">>,
              <<"1", "3", "/", "5">>,
              <<"2", "/", "3", "0">>,
              <<"1", "0", YUE, "2", "3", RI>>,
              <<"1", "1", "2", "/", "1", "0", "/", "2", "3">>,
              <<HAN, HAN>> },
            MaxPieces) \ {<<>>}}

InitRecognizer ==
    /\ variant = "fn"
    /\ pc = "call"
    /\ rtext \in RecogInputs
    /\ rout = <<>>
    /\ date_str = <<>>
    /\ target_date = None
    /\ num_chars = 0
    /\ has_tables = FALSE
    /\ prefer_table = FALSE
    /\ df = <<>>
    /\ paragraphs = <<>>
    /\ i = 0
    /\ matches = <<>>
    /\ log = <<>>
    /\ result_rows = <<>>
    /\ final = <<>>
    /\ download = ""

CallRecognizer ==
    /\ variant = "fn" /\ pc = "call"
    /\ rout' = find_date_like_in_text(rtext.text)
    /\ pc' = "return"
    /\ UNCHANGED <<variant, date_str, target_date, num_chars, has_tables, prefer_table,
                   df, paragraphs, i, matches, log, result_rows, final, download, rtext>>

SpecRecognizer == InitRecognizer /\ [][CallRecognizer]_vars

(***************************************************************************)
(* parse_to_western_date as a function on strings A/B/C, A-B-C with a      *)
(* first number of two or three digits                                     *)
(***************************************************************************)
\* the numbers of S written with a width of W in which they fit
Numerals(S, W) == {x \in [n : S, w : W] : Len(IntStr(x.n)) <= x.w}

TripleInputs ==
    {[text |-> ZeroPad(a.n, a.w) \o <<s1>> \o ZeroPad(b.n, b.w) \o <<s2>>
               \o ZeroPad(c.n, c.w),
      a |-> a.n, b |-> b.n, c |-> c.n] :
        a \in Numerals({0, 13, 99, 113, 114, 199, 200, 201, 999}, {2, 3}),
        b \in Numerals({0, 2, 12, 13}, {1, 2}),
        c \in Numerals({0, 1, 29, 30, 31, 32}, {1, 2}),
        s1 \in SlashHyphen, s2 \in SlashHyphen}

InitParse ==
    /\ variant = "parse"
    /\ pc = "call"
    /\ rtext \in TripleInputs
    /\ rout = <<>>
    /\ date_str = <<>>
    /\ target_date = None
    /\ num_chars = 0
    /\ has_tables = FALSE
    /\ prefer_table = FALSE
    /\ df = <<>>
    /\ paragraphs = <<>>
    /\ i = 0
    /\ matches = <<>>
    /\ log = <<>>
    /\ result_rows = <<>>
    /\ final = <<>>
    /\ download = ""

CallParse ==
    /\ variant = "parse" /\ pc = "call"
    /\ rout' = parse_to_western_date(rtext.text)
    /\ pc' = "return"
    /\ UNCHANGED <<variant, date_str, target_date, num_chars, has_tables, prefer_table,
                   df, paragraphs, i, matches, log, result_rows, final, download, rtext>>

SpecParse == InitParse /\ [][CallParse]_vars

Parsed == variant = "parse" /\ pc = "return"

\* C11: for A/B/C or A-B-C with A of two or three digits parse_to_western_date
\* gives the date (A + 1911, B, C) when A < 200 and (A, B, C) when A >= 200,
\* and None when that triple is no calendar date
C11_RocBoundary ==
    Parsed =>
        LET y == IF rtext.a < 200 THEN rtext.a + 1911 ELSE rtext.a
        IN  IF ValidDate(y, rtext.b, rtext.c)
            THEN rout = MkDate(y, rtext.b, rtext.c)
            ELSE rout = None

\* 199 read as a year of the Republic and 200 as a Gregorian year, in one run each
C11_Witness ==
    /\ Parsed
    /\ \/ rtext.a = 199 /\ IsDate(rout) /\ rout.year = 2110
       \/ rtext.a = 200 /\ IsDate(rout) /\ rout.year = 200

(***************************************************************************)
(* The snippet extractors as functions: extract_text of variant 4 and the  *)
(* snippet of the main flow of variant 2, on a cell that the filter kept   *)
(***************************************************************************)
\* cells with two dates, the date of the target among them
SnippetTexts ==
    LET D_2025 == <<"2", "0", "2", "5", "/", "1", "0", "/", "2", "3">>
        D_2024 == <<"2", "0", "2", "4", "/", "1", "0", "/", "2", "3">>
        D_ISO  == <<"2", "0", "2", "5", "-", "1", "0", "-", "2", "3">>
        D_CN   == <<"2", "0", "2", "5", NIAN, "1", "0", YUE, "2", "3", RI>>
        D_MD   == <<"1", "0", "/", "2", "3">>
        D_CNMD == <<"1", "0", YUE, "2", "3", RI>>
    IN  {SCEN_A, SCEN_B, SCEN_C, TRIPLE, FULLWIDTH, ISO_DASH, CN_LONG,
         D_2024 \o <<" ">> \o D_2025,
         D_MD \o <<" ", HAN, " ">> \o D_2025 \o <<" ", HAN, HAN>>,
         D_CN \o <<" ">> \o D_2025,
         D_2025 \o <<HAN>> \o D_ISO \o <<HAN>> \o D_2025,
         D_CNMD \o <<" ">> \o D_MD \o <<" ", HAN, HAN, HAN, HAN, HAN, HAN>>}

\* the cells on which an extractor can be called: those its filter keeps
SnippetInputs ==
    {x \in [v : {"v2", "v4"}, text : SnippetTexts,
            t : {MkDate(2025, 10, 23), MkDate(1900, 10, 23), MkDate(2024, 10, 23)},
            n : {5, 20}] :
        IF x.v = "v4" THEN row_found_v4(x.text, x.t)
        ELSE row_found_v2(x.text, x.t, TRUE)}

InitSnippet ==
    /\ variant = "snippet"
    /\ pc = "call"
    /\ rtext \in SnippetInputs
    /\ rout = <<>>
    /\ date_str = <<>>
    /\ target_date = None
    /\ num_chars = 0
    /\ has_tables = FALSE
    /\ prefer_table = FALSE
    /\ df = <<>>
    /\ paragraphs = <<>>
    /\ i = 0
    /\ matches = <<>>
    /\ log = <<>>
    /\ result_rows = <<>>
    /\ final = <<>>
    /\ download = ""

\* extract_text(row) of variant 4
CallExtractV4 ==
    /\ variant = "snippet" /\ pc = "call" /\ rtext.v = "v4"
    /\ rout' = extracted_row(1, rtext.text, extract_locate(rtext.text, rtext.t), rtext.n)
    /\ pc' = "return"
    /\ UNCHANGED <<variant, date_str, target_date, num_chars, has_tables, prefer_table,
                   df, paragraphs, i, matches, log, result_rows, final, download, rtext>>

\* the snippet of the main flow of variant 2 for one kept row
CallSnippetV2 ==
    /\ variant = "snippet" /\ pc = "call" /\ rtext.v = "v2"
    /\ rout' = Row("table", 1, rtext.text, snippet_locate(rtext.text, rtext.t),
                   snippet_of(rtext.text, rtext.t, rtext.n))
    /\ pc' = "return"
    /\ UNCHANGED <<variant, date_str, target_date, num_chars, has_tables, prefer_table,
                   df, paragraphs, i, matches, log, result_rows, final, download, rtext>>

SpecSnippet == InitSnippet /\ [][CallExtractV4 \/ CallSnippetV2]_vars

Snipped == variant = "snippet" /\ pc = "return"

\* the text the extractor searches
SnippetSource == IF rtext.v = "v4" THEN normalize(rtext.text) ELSE rtext.text

\* the candidate renderings of a target, year-bearing ones first
Priority(t) ==
    <<fmt_Y_m_d(t, <<"-">>), fmt_Y_m_d(t, <<"/">>), td_chinese(t),
      fmt_Y_m_d(t, <<>>), td_roc(t),
      fmt_m_d(t, <<"/">>), fmt_M_D(t, <<"/">>), td_chinese_short(t)>>

\* C12: the extractor uses the first candidate rendering, in priority order,
\* that occurs in the text, and locates it at its first occurrence
C12_PriorityOrder ==
    (Snipped /\ rout.found) =>
        \E j \in 1..Len(Priority(rtext.t)) :
            LET c == Priority(rtext.t)[j]
            IN  /\ Contains(SnippetSource, c)
                /\ \A k \in 1..(j - 1) : ~Contains(SnippetSource, Priority(rtext.t)[k])
                /\ rout.start = PyFind(SnippetSource, c)
                /\ rout.len = Len(c)

\* C13: a snippet is a contiguous substring of the source text that begins at
\* the offset where the date was located and contains the whole matched date
C13_SnippetHoldsDate ==
    (Snipped /\ rout.text # <<>>) =>
        /\ rout.found
        /\ rout.text = PySlice(rtext.text, rout.start, rout.start + Len(rout.text))
        /\ Len(rout.text) >= rout.len

(***************************************************************************)
(* The loop body of filter_df_by_date_in_column as a function of one cell  *)
(* and a target date (variants 2 and 4)                                    *)
(***************************************************************************)
MatchDates ==
    {MkDate(2025, 10, 23), MkDate(2025, 1, 5), MkDate(2024, 2, 29),
     MkDate(2010, 1, 5), MkDate(1999, 12, 31)}

\* a rendering alone in the cell, or inside other text
InCell(r, wrapped) == IF wrapped THEN <<HAN, HAN, " ">> \o r \o <<" ", HAN, HAN>> ELSE r

\* a missing cell value (NaN, None) of the column
Missing == <<"NaN">>

\* the cell as it is, without fillna("")
cell_text_no_fillna(cell) == cell

\* df[column].fillna("") and text = str(cell): a missing value gives ""
cell_text(cell) == IF cell = Missing THEN <<>> ELSE cell

\* form 0 is a text without a date, form 9 a missing value
MatchInputs ==
    {[v |-> v, t |-> t, d |-> d, form |-> f, text |-> InCell(Renderings(d)[f], w)] :
        v \in {"v2", "v4"}, t \in MatchDates, d \in MatchDates, f \in 1..8,
        w \in BOOLEAN}
    \cup
    {[v |-> v, t |-> t, d |-> None, form |-> 0, text |-> x] :
        v \in {"v2", "v4"}, t \in MatchDates,
        \* texts without a date: no digits, or digits in no date shape
        x \in {SCEN_D, EMPTY, <<HAN, ":", " ", HAN, "/", HAN>>,
               <<"1", "2", "3", "4", "5">>, <<HAN, "3", HAN>>,
               <<"1", "/", " ", "2">>}}
    \cup
    {[v |-> v, t |-> t, d |-> None, form |-> 9, text |-> Missing] :
        v \in {"v2", "v4"}, t \in MatchDates}

InitMatch ==
    /\ variant = "match"
    /\ pc = "call"
    /\ rtext \in MatchInputs
    /\ rout = <<>>
    /\ date_str = <<>>
    /\ target_date = None
    /\ num_chars = 0
    /\ has_tables = FALSE
    /\ prefer_table = FALSE
    /\ df = <<>>
    /\ paragraphs = <<>>
    /\ i = 0
    /\ matches = <<>>
    /\ log = <<>>
    /\ result_rows = <<>>
    /\ final = <<>>
    /\ download = ""

\* the loop body of variant 4 for the cell
CallMatchV4 ==
    /\ variant = "match" /\ pc = "call" /\ rtext.v = "v4"
    /\ \E ev \in {row_eval_v4(cell_text(rtext.text), rtext.t)} :
          rout' = [found |-> ev.found, called |-> ev.called, raised |-> ev.raised,
                   text |-> cell_text(rtext.text)]
    /\ pc' = "return"
    /\ UNCHANGED <<variant, date_str, target_date, num_chars, has_tables, prefer_table,
                   df, paragraphs, i, matches, log, result_rows, final, download, rtext>>

\* the loop body of variant 2 for the cell
CallMatchV2 ==
    /\ variant = "match" /\ pc = "call" /\ rtext.v = "v2"
    /\ \E oracle \in Oracles(normalize_v2(cell_text(rtext.text))) :
          rout' = [found |-> row_found_v2(cell_text(rtext.text), rtext.t, oracle),
                   called |-> ~candidate_hit_v2(cell_text(rtext.text), rtext.t),
                   raised |-> FALSE,
                   text |-> cell_text(rtext.text)]
    /\ pc' = "return"
    /\ UNCHANGED <<variant, date_str, target_date, num_chars, has_tables, prefer_table,
                   df, paragraphs, i, matches, log, result_rows, final, download, rtext>>

SpecMatch == InitMatch /\ [][CallMatchV4 \/ CallMatchV2]_vars

Matched == variant = "match" /\ pc = "return"

\* C14: a cell whose text contains the rendering (year - 1911)/month/day of
\* the target is accepted by the matcher
C14_RocAccepted ==
    (Matched /\ Contains(rtext.text, td_roc(rtext.t))) => rout.found

\* accepted cells with the ROC rendering of a target, the ROC year of two
\* digits, in other text
C14_Witness ==
    /\ Matched /\ rout.found
    /\ rtext.form = 8 /\ rtext.d = rtext.t /\ rtext.t.year < 2011
    /\ rtext.text # td_roc(rtext.t)

(***************************************************************************)
(* prev_business_day                                                       *)
(***************************************************************************)
\* date.toordinal(): the day number, 0001-01-01 being day 1
DaysBeforeYear(y) ==
    (y - 1) * 365 + ((y - 1) \div 4) - ((y - 1) \div 100) + ((y - 1) \div 400)

RECURSIVE DaysBeforeMonth(_, _)
DaysBeforeMonth(y, m) ==
    IF m = 1 THEN 0 ELSE DaysBeforeMonth(y, m - 1) + DaysInMonth(y, m - 1)

toordinal(d) == DaysBeforeYear(d.year) + DaysBeforeMonth(d.year, d.month) + d.day

\* a week counted from Sunday = 0
weekday_from_sunday(d) == toordinal(d) % 7

\* date.weekday(): Monday = 0 .. Sunday = 6
weekday(d) == (toordinal(d) + 6) % 7

\* d - timedelta(days=1)
minus_one_day(d) ==
    IF d.day > 1 THEN MkDate(d.year, d.month, d.day - 1)
    ELSE IF d.month > 1
         THEN MkDate(d.year, d.month - 1, DaysInMonth(d.year, d.month - 1))
         ELSE MkDate(d.year - 1, 12, 31)

\* while d.weekday() >= 5: d -= one
RECURSIVE step_back(_)
step_back(d) == IF weekday(d) >= 5 THEN step_back(minus_one_day(d)) ELSE d

\* d = ref - one; the loop; return d.date()
prev_business_day(ref) == step_back(minus_one_day(ref))

InitPrevDay ==
    /\ variant = "prev_business_day"
    /\ pc = "call"
    \* reference days: the months around the turn of a year and a leap day
    /\ rtext \in {MkDate(x.y, x.m, x.d) :
                    x \in {r \in [y : {2024, 2025, 2026}, m : {1, 2, 3, 10, 12},
                                    d : 1..31] :
                              ValidDate(r.y, r.m, r.d)}}
    /\ rout = None
    /\ date_str = <<>> /\ target_date = None /\ num_chars = 0
    /\ has_tables = FALSE /\ prefer_table = FALSE
    /\ df = <<>> /\ paragraphs = <<>> /\ i = 0 /\ matches = <<>> /\ log = <<>>
    /\ result_rows = <<>> /\ final = <<>> /\ download = ""

CallPrevBusinessDay ==
    /\ variant = "prev_business_day" /\ pc = "call"
    /\ rout' = prev_business_day(rtext)
    /\ pc' = "return"
    /\ UNCHANGED <<variant, date_str, target_date, num_chars, has_tables,
                   prefer_table, df, paragraphs, i, matches, log, result_rows,
                   final, download, rtext>>

SpecPrevDay == InitPrevDay /\ [][CallPrevBusinessDay]_vars

PrevDayReturned == variant = "prev_business_day" /\ pc = "return"

\* C18: prev_business_day returns the latest day before the reference day that
\* is a Monday to Friday: never a Saturday or Sunday, 1 to 3 days before the
\* reference day, with only Saturdays and Sundays in between
C18_PrevBusinessDay ==
    PrevDayReturned =>
        LET gap == toordinal(rtext) - toordinal(rout)
        IN  /\ IsDate(rout) /\ ValidDate(rout.year, rout.month, rout.day)
            /\ (toordinal(rout) + 6) % 7 \in 0..4
            /\ gap \in 1..3
            /\ \A k \in 1..(gap - 1) : (toordinal(rtext) - k + 6) % 7 \in {5, 6}

\* Monday 2025-10-27 gives Friday 2025-10-24
C18_Witness ==
    /\ PrevDayReturned
    /\ rtext = MkDate(2025, 10, 27)
    /\ rout = MkDate(2025, 10, 24)

(***************************************************************************)
(* The normalization as a function on strings                              *)
(***************************************************************************)
MaxNormLen == 3

\* the characters the normalization replaces, those it puts in their place,
\* and two it leaves alone
NormChars == {FWSL, FWHY, "_", FWDOT, "/", "-", ".", "1", HAN}

NormInputs == [v : {"v2", "v4"}, text : SeqsUpTo(NormChars, MaxNormLen)]

InitNormalize ==
    /\ variant = "normalize"
    /\ pc = "call"
    /\ rtext \in NormInputs
    /\ rout = <<>>
    /\ date_str = <<>> /\ target_date = None /\ num_chars = 0
    /\ has_tables = FALSE /\ prefer_table = FALSE
    /\ df = <<>> /\ paragraphs = <<>> /\ i = 0 /\ matches = <<>> /\ log = <<>>
    /\ result_rows = <<>> /\ final = <<>> /\ download = ""

\* the three replacements of variant 4, applied once and applied again
CallNormalizeV4 ==
    /\ variant = "normalize" /\ pc = "call" /\ rtext.v = "v4"
    /\ rout' = [once  |-> normalize(rtext.text),
                twice |-> normalize(normalize(rtext.text))]
    /\ pc' = "return"
    /\ UNCHANGED <<variant, date_str, target_date, num_chars, has_tables,
                   prefer_table, df, paragraphs, i, matches, log, result_rows,
                   final, download, rtext>>

\* the four replacements of variants 2 and 3
CallNormalizeV2 ==
    /\ variant = "normalize" /\ pc = "call" /\ rtext.v = "v2"
    /\ rout' = [once  |-> normalize_v2(rtext.text),
                twice |-> normalize_v2(normalize_v2(rtext.text))]
    /\ pc' = "return"
    /\ UNCHANGED <<variant, date_str, target_date, num_chars, has_tables,
                   prefer_table, df, paragraphs, i, matches, log, result_rows,
                   final, download, rtext>>

SpecNormalize == InitNormalize /\ [][CallNormalizeV4 \/ CallNormalizeV2]_vars

Normalized == variant = "normalize" /\ pc = "return"

\* C20: the normalization gives a string for every string, and normalizing
\* its result again changes nothing
C20_NormalizeIdempotent ==
    Normalized =>
        /\ rout.once \in Seq(NormChars)
        /\ Len(rout.once) = Len(rtext.text)
        /\ rout.twice = rout.once

C20_Witness ==
    /\ Normalized
    /\ rtext.v = "v4"
    /\ \E j \in 1..Len(rtext.text) : rtext.text[j] = "_"
    /\ \E j \in 1..Len(rtext.text) : rtext.text[j] = FWSL
    /\ rout.once # rtext.text
    /\ rout.twice = rout.once

(***************************************************************************)
(* export_to_word as a function of one row                                 *)
(***************************************************************************)
\* rows and target strings: form 1 is Y-m-d, 2 is Y/m/d, 3 the un-padded
\* M/D, which holds no year-month-day; main says that the row's text is a
\* snippet that the main flow of variant 2 cut for the target
ExportInputs ==
    LET dates == {MkDate(2025, 10, 23), MkDate(2025, 1, 5)}
        str(t, f) == CASE f = 1 -> fmt_Y_m_d(t, <<"-">>)
                       [] f = 2 -> fmt_Y_m_d(t, <<"/">>)
                       [] f = 3 -> fmt_M_D(t, <<"/">>)
        cells(t) == {<<HAN, " ">> \o r \o <<" ", HAN, HAN, HAN>> :
                        r \in {fmt_Y_m_d(t, <<"-">>), fmt_Y_m_d(t, <<"/">>),
                               td_chinese(t), fmt_M_D(t, <<"/">>),
                               IntStr(t.year) \o <<NIAN>> \o ZeroPad(t.month, 2)
                                   \o <<YUE>> \o ZeroPad(t.day, 2) \o <<RI>>}}
                    \cup {SCEN_A, SCEN_D, CN_LONG, ISO_DASH, EMPTY}
    IN  {[text |-> c, t |-> t, form |-> f, s |-> str(t, f), n |-> n, main |-> FALSE] :
            c \in UNION {cells(t) : t \in dates}, t \in dates, f \in 1..3, n \in {1, 5}}
        \cup
        {[text |-> snippet_of(x.c, x.t, n), t |-> x.t, form |-> 1,
          s |-> fmt_Y_m_d(x.t, <<"-">>), n |-> n, main |-> TRUE] :
            x \in {y \in UNION {[c : cells(t), t : {t}] : t \in dates} :
                      snippet_of(y.c, y.t, 1) # <<>>},
            n \in {1, 5}}

InitExport ==
    /\ variant = "export_to_word"
    /\ pc = "call"
    /\ rtext \in ExportInputs
    /\ rout = <<>>
    /\ date_str = <<>> /\ target_date = None /\ num_chars = 0
    /\ has_tables = FALSE /\ prefer_table = FALSE
    /\ df = <<>> /\ paragraphs = <<>> /\ i = 0 /\ matches = <<>> /\ log = <<>>
    /\ result_rows = <<>> /\ final = <<>> /\ download = ""

CallExportToWord ==
    /\ variant = "export_to_word" /\ pc = "call"
    /\ rout' = export_row(rtext.text, rtext.s, rtext.n)
    /\ pc' = "return"
    /\ UNCHANGED <<variant, date_str, target_date, num_chars, has_tables,
                   prefer_table, df, paragraphs, i, matches, log, result_rows,
                   final, download, rtext>>

SpecExport == InitExport /\ [][CallExportToWord]_vars

Exported == variant = "export_to_word" /\ pc = "return"

Handled == 1..Len(log)

\* a date found by the recognizer equal to the target: year, month and day for a
\* match of the year-bearing pattern, month and day for the year-omitted ones
PolicyEqual(m, t) == IF m.pat = 1 THEN SameYMD(m.d, t) ELSE SameMD(m.d, t)

\* the inclusion rule as stated: one of the eight renderings is a substring of
\* the normalized text, or the recognizer yields a date equal to the target
StatedInclusion(text, t) ==
    LET n == normalize(text)
        kept == find_date_like_in_text(n).kept
    IN  \/ AnyIn(Renderings(t), n)
        \/ \E j \in 1..Len(kept) : PolicyEqual(kept[j], t)

\* C1: a row is included by filter_df_by_date_in_column if and only if its
\* normalized text contains one of the eight candidate renderings of the target
\* or, none being contained, find_date_like_in_text yields a date equal to the
\* target (month/day for year-omitted matches, year+month+day for year-bearing)
C1_InclusionIff ==
    \A k \in Handled :
        /\ variant = "v4" =>
             (log[k].found <=> StatedInclusion(df[k], target_date))
        /\ variant = "v2" =>
             (AnyIn(Renderings(target_date), normalize_v2(df[k])) => log[k].found)

\* year-bearing renderings of the target's month and day in another year
OtherYearTexts(t) ==
    {Renderings(MkDate(y, t.month, t.day))[f] :
        y \in {t.year - 1, t.year + 1}, f \in {1, 2, 6, 8}}

\* the year-omitted renderings M/D, MM/DD and M<yue>D<ri> of the target
YearOmitted(t) == <<fmt_M_D(t, <<"/">>), fmt_m_d(t, <<"/">>), fmt_M_yue_D_ri(t)>>

\* C2: a text carrying a year-omitted form of the target's month and day is
\* matched whatever the target's year, and a text that is nothing but a
\* year-bearing form with another year is not matched
C2_YearPolicy ==
    \A k \in Handled :
        /\ AnyIn(YearOmitted(target_date), normalize(df[k])) => log[k].found
        /\ df[k] \in OtherYearTexts(target_date) => ~log[k].found

(***************************************************************************)
(* Properties of the snippet (extract_text of variant 4, the snippet of    *)
(* the main flow of variant 2)                                             *)
(***************************************************************************)
\* the text the snippet is cut from
Searched(r) == IF variant = "v4" THEN normalize(r.cell) ELSE r.cell

\* C3: when the date is found at offset i with matched length L, the snippet
\* is text[i : min(len(text), i + L + num_chars)]
C3_SnippetIsDatePlusTail ==
    \A j \in 1..Len(result_rows) :
        LET r == result_rows[j]
        IN  r.found =>
              r.text = PySlice(Searched(r), r.start,
                               Min(Len(r.cell), r.start + r.len + num_chars))

\* C4: a snippet is never longer than the matched date text plus num_chars,
\* and it is a slice of the text that ends at or before the end of the text
C4_SnippetBounded ==
    \A j \in 1..Len(result_rows) :
        LET r == result_rows[j]
            from == IF r.found THEN r.start ELSE 0
        IN  /\ Len(r.text) <= r.len + num_chars
            /\ from + Len(r.text) <= Len(r.cell)
            /\ r.text = PySlice(Searched(r), from, from + Len(r.text))

\* a found row whose text ends before num_chars further characters: the
\* snippet stops at the end of the text
C4_Witness ==
    \E j \in 1..Len(result_rows) :
        LET r == result_rows[j]
        IN  /\ r.found
            /\ r.start + r.len + num_chars > Len(r.cell)
            /\ r.start + Len(r.text) = Len(r.cell)

\* C6: when the date is not located in the text the snippet is empty
C6_NotFoundIsEmpty ==
    \A j \in 1..Len(result_rows) :
        ~result_rows[j].found => result_rows[j].text = <<>>

(***************************************************************************)
(* Properties of the rows handed to the exporters                          *)
(***************************************************************************)
\* C7: every row of the final result handed to an exporter has a snippet that
\* is not empty after stripping; the rows with an empty snippet are removed
C7_NoEmptySnippetExported ==
    /\ \A j \in 1..Len(final) : ~StripIsEmpty(final[j].text)
    /\ pc = "exported" =>
         /\ final # <<>>
         /\ variant = "v2" => final = keep_non_empty(result_rows)

\* an export of variant 2 from which a matched row with an empty snippet is gone
C7_Witness ==
    /\ variant = "v2" /\ pc = "exported" /\ download \in DownloadFormats
    /\ \E k \in 1..Len(matches) :
          /\ snippet_of(df[matches[k]], target_date, num_chars) = <<>>
          /\ \A j \in 1..Len(final) : final[j].idx # matches[k]

\* C8: the rows kept by filter_df_by_date_in_column are input rows in their
\* original relative order, none twice, and they are the rows found to match
C8_OrderedSubset ==
    /\ \A j \in 1..Len(matches) : matches[j] \in 1..Len(df)
    /\ \A j, k \in 1..Len(matches) : j < k => matches[j] < matches[k]
    /\ \A k \in Handled : log[k].found <=> \E j \in 1..Len(matches) : matches[j] = k

\* the filter has kept two different rows
C8_Witness ==
    /\ pc \in {"extract", "exported", "final"}
    /\ Len(matches) = 2 /\ df[matches[1]] # df[matches[2]]

(***************************************************************************)
(* Properties of find_date_like_in_text (variant 4)                        *)
(***************************************************************************)
Returned == variant = "fn" /\ pc = "return"

\* C5: for every candidate rendering S of a valid date D, the dates that
\* find_date_like_in_text returns for the normalized S contain D (year, month
\* and day for a year-bearing rendering, month and day for a year-omitted one)
C5_RoundTrip ==
    (Returned /\ rtext.form # 0) =>
        \E j \in 1..Len(rout.found_dates) :
            IF rtext.form \in YearBearingForms
            THEN SameYMD(rout.found_dates[j], rtext.d)
            ELSE SameMD(rout.found_dates[j], rtext.d)

\* C9 as stated: the dates are returned in ascending start offset of their
\* matches, whatever pattern produced them
C9_OffsetOrder ==
    Returned =>
        \A j, k \in 1..Len(rout.kept) : j < k => rout.kept[j].start < rout.kept[k].start

\* C9: find_date_like_in_text returns the dates grouped by pattern in the order
\* of the patterns (year-bearing numeric, year-omitted numeric, M<yue>D<ri>)
\* and by ascending start offset within a pattern; the dates are those of the
\* matches that parse; the result is empty for a text without a digit
C9_PatternThenOffsetOrder ==
    Returned =>
        /\ \A j, k \in 1..Len(rout.kept) : j < k =>
              \/ rout.kept[j].pat < rout.kept[k].pat
              \/ /\ rout.kept[j].pat = rout.kept[k].pat
                 /\ rout.kept[j].start < rout.kept[k].start
        /\ Len(rout.found_dates) = Len(rout.kept)
        /\ \A j \in 1..Len(rout.kept) : rout.found_dates[j] = rout.kept[j].d
        /\ (\A j \in 1..Len(rtext.text) : rtext.text[j] \notin Digit)
              => rout.found_dates = <<>>

\* a year-omitted date returned after a year-bearing date that starts later
C9_Witness ==
    /\ Returned
    /\ \E j, k \in 1..Len(rout.kept) :
          j < k /\ rout.kept[j].pat < rout.kept[k].pat
                /\ rout.kept[j].start > rout.kept[k].start

(***************************************************************************)
(* Invalid matches                                                         *)
(***************************************************************************)
EndsWith(text, sub) ==
    Len(sub) <= Len(text) /\ StartsAt(text, sub, Len(text) - Len(sub))

\* dates written year/month/day after a blank at the end of a cell
TrailingDates == {MkDate(2025, 10, 24), MkDate(2025, 10, 23)}

\* C10: find_date_like_in_text never raises; a match that is no calendar date
\* is left out, the other matches of the text are returned, and the filter goes
\* on to the following rows
C10_InvalidMatchSkipped ==
    /\ pc # "crashed"
    /\ \A k \in Handled :
          \A j \in 1..Len(log[k].parsed) :
              LET d == log[k].parsed[j]
              IN  IsDate(d) /\ ValidDate(d.year, d.month, d.day)
    /\ variant = "v4" =>
          \A k \in Handled : \A t \in TrailingDates :
              (log[k].called /\
               EndsWith(normalize(df[k]), <<" ">> \o fmt_Y_m_d(t, <<"/">>)))
              => \E j \in 1..Len(log[k].parsed) : log[k].parsed[j] = t
    /\ (variant = "v4" /\ pc \in {"extract", "warning_no_match", "exported"})
          => Len(log) = Len(df)

\* a row with a match that is no calendar date and a valid one was handled,
\* and the row after it too
C10_Witness ==
    /\ variant = "v4" /\ Len(log) = 2
    /\ log[1].called /\ log[1].parsed # <<>>
    /\ \E j \in 1..Len(AllMatches(normalize(df[1]))) :
          AllMatches(normalize(df[1]))[j].d = None


(***************************************************************************)
(* The Chinese short form                                                  *)
(***************************************************************************)
\* the month/day form M<yue>D<ri> of the target is in the text and the text
\* holds no separator or year character of another date form
ShortFormOnly(text, t) ==
    /\ Contains(text, td_chinese_short(t))
    /\ \A j \in 1..Len(text) : text[j] \notin {"/", "-", "_", NIAN, FWSL, FWHY}

\* the snippets of the kept table rows have been computed
SnippetsDone ==
    \/ variant = "v4" /\ pc = "exported"
    \/ variant = "v2" /\ has_tables /\ prefer_table
          /\ pc \in {"paragraphs", "final", "exported", "warning_no_match"}

\* C15: a row whose text contains the form M<yue>D<ri> of the target's month
\* and day is matched, and the snippet produced for it starts at that form
C15_ChineseShortForm ==
    \A k \in Handled :
        ShortFormOnly(df[k], target_date) =>
            /\ log[k].found
            /\ SnippetsDone =>
                  \E j \in 1..Len(result_rows) :
                      LET r == result_rows[j]
                      IN  /\ r.src = "table" /\ r.idx = k /\ r.found
                          /\ r.start = PyFind(r.cell, td_chinese_short(target_date))


(***************************************************************************)
(* Texts without a date                                                    *)
(***************************************************************************)
\* the text holds no rendering of the target and no match of a date pattern of
\* either recognizer
NoDateLike(text, t) ==
    /\ \A j \in 1..Len(Priority(t)) : ~Contains(normalize(text), Priority(t)[j])
    /\ AllMatches(normalize(text)) = <<>>
    /\ finditer(date_regex, normalize_v2(text)) = <<>>

\* C16: a row whose text holds no date-like substring is excluded for every
\* target date, so that no snippet is cut from it
C16_UndatedExcluded ==
    (Matched /\ NoDateLike(rtext.text, rtext.t)) => ~rout.found

C16_Witness ==
    /\ Matched /\ ~rout.found /\ rout.called
    /\ NoDateLike(rtext.text, rtext.t)
    /\ \E j \in 1..Len(rtext.text) : rtext.text[j] \in Digit


(***************************************************************************)
(* Target strings that name no date                                        *)
(***************************************************************************)
\* the three numbers of a year-month-day string, the year being a Gregorian
\* year of four digits or a Republic-of-China year of two or three, are no
\* calendar date
NoCalendarDate(s) ==
    LET g == ReMatch(ISO_SHAPE, s, 0)
        r == ReMatch(ROC_RE, s, 0)
    IN  \/ /\ g.ok
           /\ ~ValidDate(ToInt(PySlice(s, g.marks[1], g.marks[2])),
                         ToInt(PySlice(s, g.marks[3], g.marks[4])),
                         ToInt(PySlice(s, g.marks[5], g.marks[6])))
        \/ /\ r.ok
           /\ ~ValidDate(ToInt(PySlice(s, r.marks[1], r.marks[2])) + 1911,
                         ToInt(PySlice(s, r.marks[3], r.marks[4])),
                         ToInt(PySlice(s, r.marks[5], r.marks[6])))

\* C17: for a target string that names no calendar date the parse gives None
\* and the run stops at the validation message: no row is tested, nothing is
\* kept, no result and no download is built
C17_BadTargetStops ==
    (variant = "v4" /\ NoCalendarDate(date_str)) =>
        /\ pc \in {"load", "button", "error_no_tables", "error_bad_date"}
        /\ target_date = None
        /\ i = 0 /\ matches = <<>> /\ log = <<>>
        /\ result_rows = <<>> /\ final = <<>> /\ download = ""

C17_Witness ==
    /\ variant = "v4" /\ pc = "error_bad_date"
    /\ NoCalendarDate(date_str)
    /\ date_str[5] = "-"


(***************************************************************************)
(* Documents without tables                                                *)
(***************************************************************************)
\* C19: a run on a document without tables ends in no error state: it goes on
\* to the paragraph search and from there to the result
C19_NoTablesNoError ==
    ~has_tables =>
        /\ pc \notin {"error_no_tables", "crashed"}
        /\ pc \in {"load", "tables", "paragraphs", "final", "exported",
                   "warning_no_match"}


(***************************************************************************)
(* Missing cell values                                                     *)
(***************************************************************************)
\* C21: a missing cell value is tested as the empty text: the row is not kept
\* and the loop body raises nothing
C21_MissingIsEmpty ==
    (Matched /\ rtext.text = Missing) =>
        /\ rout.text = <<>>
        /\ ~rout.found
        /\ ~rout.raised

C21_Witness ==
    /\ Matched /\ rtext.form = 9 /\ rtext.text = Missing
    /\ rout.text = <<>> /\ rout.called /\ ~rout.found


(***************************************************************************)
(* Substring test first, recognizer as the fallback                        *)
(***************************************************************************)
\* a candidate rendering of the target is contained in the normalized text
CandidateContained(v, text, t) ==
    IF v = "v4" THEN candidate_hit_v4(normalize(text), t)
    ELSE candidate_hit_v2(text, t)

\* C22: find_date_like_in_text is called for a row exactly when no candidate
\* rendering is contained in its text; a row that the substring test accepts
\* is kept without the call
C22_RecognizerOnlyAsFallback ==
    Matched =>
        /\ rout.called <=> ~CandidateContained(rtext.v, rout.text, rtext.t)
        /\ CandidateContained(rtext.v, rout.text, rtext.t) => rout.found

\* a cell whose date the recognizer would find too, kept by the substring test
\* alone
C22_Witness ==
    /\ Matched /\ rtext.v = "v4" /\ rtext.form = 2 /\ rtext.d = rtext.t
    /\ rout.found /\ ~rout.called
    /\ find_date_like_in_text(rout.text).found_dates # <<>>


(***************************************************************************)
(* Agreement of the matcher and the snippet step                           *)
(***************************************************************************)
\* C24: in the table flow, every row that filter_df_by_date_in_column keeps
\* has a snippet that is not empty and is a row of the result
C24_KeptRowsReported ==
    (variant = "v2" /\ SnippetsDone) =>
        \A k \in 1..Len(matches) :
            /\ ~StripIsEmpty(snippet_of(df[matches[k]], target_date, num_chars))
            /\ \E j \in 1..Len(result_rows) :
                  /\ result_rows[j].src = "table"
                  /\ result_rows[j].idx = matches[k]
            /\ pc = "exported" =>
                  \E j \in 1..Len(final) :
                      final[j].src = "table" /\ final[j].idx = matches[k]


(***************************************************************************)
(* The Word export of the main flow's result (variants 1 and 3)            *)
(***************************************************************************)
\* C25: for a row whose text is a snippet cut by the main flow, export_to_word
\* writes a highlighted snippet equal to the row's text, and never the
\* placeholder
C25_ExportKeepsSnippet ==
    (Exported /\ rtext.main) =>
        /\ rout.run = "highlight"
        /\ rout.snippet = rtext.text


(***************************************************************************)
(* Tables before paragraphs                                                *)
(***************************************************************************)
TableRows == SelectSeq(result_rows, LAMBDA r : r.src = "table")
ParaRows  == SelectSeq(result_rows, LAMBDA r : r.src = "paragraphs")

\* C26: the paragraphs are searched exactly when the table search left no
\* result row; when a table row is reported no paragraph is scanned or reported
C26_ParagraphsOnlyWithoutTableRows ==
    variant = "v2" =>
        /\ pc = "paragraphs" => TableRows = <<>>
        /\ TableRows # <<>> => ParaRows = <<>>
        /\ pc \in {"final", "exported", "warning_no_match"} =>
              IF TableRows # <<>> THEN i = 0 ELSE i = Len(paragraphs)

\* a table row is reported and the paragraph that holds the target date is not
C26_Witness ==
    /\ variant = "v2" /\ pc = "exported"
    /\ TableRows # <<>> /\ ParaRows = <<>> /\ i = 0
    /\ paragraphs # <<>>
    /\ snippet_of(paragraphs[1], target_date, num_chars) # <<>>


(***************************************************************************)
(* A text that is one year-bearing date                                    *)
(***************************************************************************)
\* C27: for a text that is exactly one year-bearing date string (Y-m-d, Y/m/d
\* or the ROC form) find_date_like_in_text returns that date and no other
C27_SingleDateOnce ==
    (Returned /\ rtext.form \in {1, 2, 8}) => rout.found_dates = <<rtext.d>>


(***************************************************************************)
(* The year of the match that starts the snippet                           *)
(***************************************************************************)
\* C28: when extract_text starts the snippet at a match that carries a year
\* (a match of the first pattern: seven characters or more), the date parsed
\* from the match has the target's year, month and day
C28_SnippetStartYear ==
    (Snipped /\ rtext.v = "v4" /\ rout.found /\ rout.len >= 7) =>
        SameYMD(parse_to_western_date(
                    PySlice(SnippetSource, rout.start, rout.start + rout.len)),
                rtext.t)

=============================================================================
